---- MODULE Spec2Model ----
(***************************************************************************)
(* MP4 -> HLS converter (src/main.py): the ConverterThread worker, the     *)
(* external prober / encoder processes it drives, the destination folder   *)
(* it writes to, and the part of MainWindow that creates workers.          *)
(*                                                                         *)
(* Time and durations are whole seconds.  A source path is <<dir, stem>>;  *)
(* src.name and src.stem are both represented by the stem.  All jobs       *)
(* write under one destination root.                                       *)
(***************************************************************************)
EXTENDS Integers, Sequences, FiniteSets, TLC

\* ---------------------------------------------------------------- bounds
MaxJobs == 2
MaxLines == 2
MaxThreads == 2
MaxItems == 1
MaxStreams == 3

Threads == 1..MaxThreads

Paths == {<<"a", "x">>, <<"a", "y">>}

stem(p) == p[2]

Stems == {stem(p) : p \in Paths}

\* ------------------------------------------------------------ data model
Job == [src : Paths, skip_if_incompatible : BOOLEAN, enable_transcode_if_needed : BOOLEAN]

JobLists == UNION {[1..n -> Job] : n \in 0..MaxJobs}

Stream(type, name) == [codec_type |-> type, codec_name |-> name]

\* stream lists the prober reports in the worker specifications
ProbeStreams ==
  { <<Stream("video", "h264")>>,
    <<Stream("video", "h264"), Stream("audio", "aac")>>,
    <<Stream("video", "hevc"), Stream("audio", "aac")>>,
    <<Stream("video", "h264"), Stream("audio", "opus")>> }

\* format.duration of the probed metadata: missing, not a number, or seconds
Duration(kind, secs) == [kind |-> kind, secs |-> secs]

ProbeDurations == {Duration("absent", 0), Duration("number", 2)}

ProbeMetas == [streams : ProbeStreams, duration : ProbeDurations]

\* elapsed seconds the encoder may print after time=
Elapsed == {1, 2}

NoMeta == [streams |-> <<>>, duration |-> Duration("none", 0)]

\* --------------------------------------------------------------- signals
\* An emitted signal.  name, status and value are its arguments; job is the
\* position in self.jobs of the job it was emitted for (0: none), which the
\* signal itself does not carry.
Log(kind, i, name) == [sig |-> "log", job |-> i, name |-> name, status |-> kind, value |-> 0]

FileDone(i, name, st) == [sig |-> "file_done", job |-> i, name |-> name, status |-> st, value |-> 0]

Progress(v) == [sig |-> "progress", job |-> 0, name |-> "", status |-> "", value |-> v]

AllDone == [sig |-> "all_done", job |-> 0, name |-> "", status |-> "", value |-> 0]

\* ------------------------------------------------------- pure functions
\* Python int(): truncation toward zero of n / d, d > 0
int_div(n, d) == IF n >= 0 THEN n \div d ELSE -((-n) \div d)

max(a, b) == IF a >= b THEN a ELSE b

min(a, b) == IF a <= b THEN a ELSE b

get_duration_seconds(meta) ==
  IF meta.duration.kind = "number" THEN meta.duration.secs ELSE 0

RECURSIVE hls_loop(_, _, _, _)
hls_loop(streams, k, v_ok, a_ok) ==
  IF k > Len(streams) THEN v_ok /\ a_ok
  ELSE LET s == streams[k]
           v == IF s.codec_type = "video" THEN s.codec_name \in {"h264"} ELSE v_ok
           a == IF s.codec_type = "audio" THEN s.codec_name \in {"aac", "mp3", "ac3"} ELSE a_ok
       IN hls_loop(streams, k + 1, v, a)

\* codecs_are_hls_friendly with a_ok starting False: an audio stream is required
codecs_audio_required(meta) == hls_loop(meta.streams, 1, FALSE, FALSE)

codecs_are_hls_friendly(meta) == hls_loop(meta.streams, 1, FALSE, TRUE)

probed_duration(meta) == max(1, get_duration_seconds(meta))

\* must_skip with the test of enable_transcode_if_needed inverted
must_skip_inverted(hls_ok, job) ==
  ~hls_ok /\ job.skip_if_incompatible /\ job.enable_transcode_if_needed

\* must_skip without the test of enable_transcode_if_needed
must_skip_no_transcode(hls_ok, job) == ~hls_ok /\ job.skip_if_incompatible

must_skip(hls_ok, job) ==
  ~hls_ok /\ job.skip_if_incompatible /\ ~job.enable_transcode_if_needed

codec_args(hls_ok) == IF hls_ok THEN "copy" ELSE "transcode"

\* file_pct without the clamp of line 234
file_pct_unclamped(cur, duration) == int_div(cur * 100, duration)

file_pct(cur, duration) == max(0, min(100, int_div(cur * 100, duration)))

\* overall_pct for a loop counting from 0 (enumerate without start=1)
overall_pct_from_zero(i, n) == int_div((i - 1) * 100, n)

overall_pct(i, n) == int_div(i * 100, n)

\* ------------------------------------------------------------------ state
VARIABLES
  pc,           \* per thread: where ConverterThread is
  jobs,         \* per thread: self.jobs
  stop_flag,    \* per thread: self._stop
  idx,          \* per thread: loop variable i of run (0 before the first job)
  events,       \* per thread: log, file_done, progress, all_done signals emitted, in order
  file_pcts,    \* per thread: file_progress percents emitted for the job idx
  meta,         \* per thread: what ffprobe_streams returned for the job idx, kept
                \* until its encoder starts (the code does not read it afterwards)
  duration,     \* per thread: local duration of _process_one
  args,         \* per thread: codec arguments built for the encoder of the job in progress
  proc,         \* per thread: the encoder process of this thread is running
  workdir,      \* per stem: <out_root>/<stem>_hls
  archive,      \* per stem: <out_root>/<stem>.zip
  binaries,     \* whether find_ffmpeg_binaries finds ffmpeg and ffprobe
  queued,       \* threads whose all_done signal is emitted and not yet delivered
  drop,         \* MainWindow.drop: the paths of the list items, in order
  out_dir,      \* MainWindow.out_dir is set (not None)
  btn_convert,  \* MainWindow.btn_convert is enabled
  chk_skip,     \* MainWindow.chk_skip is checked
  chk_trans     \* MainWindow.chk_trans is checked

worker_vars == <<pc, jobs, stop_flag, idx, events, file_pcts, meta, duration, args, proc>>

fs_vars == <<workdir, archive>>

ui_vars == <<drop, out_dir, btn_convert, chk_skip, chk_trans>>

vars == <<worker_vars, fs_vars, binaries, queued, ui_vars>>

Absent == [exists |-> FALSE, files |-> {}]

Emit(t, evs) == events' = [events EXCEPT ![t] = @ \o evs]

job_of(t) == jobs[t][idx[t]]

\* job.src.name
name_of(t) == stem(job_of(t).src)

\* the working directory and the archive of the job idx[t] are those of its stem
out_dir_of(t) == stem(job_of(t).src)

total(t) == Len(jobs[t])

\* ------------------------------------------------------------ ConverterThread
\* on_exception with the overall progress emitted before the handler runs
on_exception_progress_first(i, name, n) ==
  <<Progress(overall_pct(i, n)), Log("FAIL", i, name), FileDone(i, name, "FAIL")>>

\* run, lines 168-170 (except Exception), then line 171
on_exception(i, name, n) ==
  <<Log("FAIL", i, name), FileDone(i, name, "FAIL"), Progress(overall_pct(i, n))>>

\* run, lines 165-167 (except SkipError), then line 171
on_skip(i, name, n) ==
  <<Log("SKIP", i, name), FileDone(i, name, "SKIP"), Progress(overall_pct(i, n))>>

\* run, line 164 (_process_one returned), then line 171
on_ok(i, name, n) == <<FileDone(i, name, "OK"), Progress(overall_pct(i, n))>>

\* the job idx[t] ends: its signals are emitted, run is back at its for statement
EndJob(t, evs) ==
  /\ Emit(t, evs)
  /\ pc' = [pc EXCEPT ![t] = "loop"]
  /\ duration' = [duration EXCEPT ![t] = 0]
  /\ args' = [args EXCEPT ![t] = "none"]

\* RunStart without the "return" of line 156: the loop runs after the error
RunStart_no_return(t) ==
  /\ pc[t] = "ready"
  /\ IF binaries
       THEN /\ pc' = [pc EXCEPT ![t] = "loop"]
            /\ UNCHANGED <<events, queued>>
       ELSE /\ pc' = [pc EXCEPT ![t] = "loop"]
            /\ Emit(t, <<Log("ERROR", 0, "")>>)
            /\ UNCHANGED queued
  /\ UNCHANGED <<jobs, stop_flag, idx, file_pcts, meta, duration, args, proc>>
  /\ UNCHANGED <<fs_vars, binaries, ui_vars>>

\* run, lines 151-158: locate the binaries
RunStart(t) ==
  /\ pc[t] = "ready"
  /\ IF binaries
       THEN /\ pc' = [pc EXCEPT ![t] = "loop"]
            /\ UNCHANGED <<events, queued>>
       ELSE /\ pc' = [pc EXCEPT ![t] = "finished"]
            /\ Emit(t, <<Log("ERROR", 0, ""), AllDone>>)
            /\ queued' = queued \cup {t}
  /\ UNCHANGED <<jobs, stop_flag, idx, file_pcts, meta, duration, args, proc>>
  /\ UNCHANGED <<fs_vars, binaries, ui_vars>>

\* should_break when run never looks at self._stop
should_break_never(t) == FALSE

\* run, line 160
should_break(t) == stop_flag[t]

\* LoopHead with "return" in place of "break" at line 161
LoopHead_return(t) ==
  /\ pc[t] = "loop"
  /\ IF idx[t] >= total(t) \/ should_break(t)
       THEN /\ pc' = [pc EXCEPT ![t] = "finished"]
            /\ IF should_break(t) /\ idx[t] < total(t)
               THEN UNCHANGED <<events, queued>>
               ELSE Emit(t, <<AllDone>>) /\ queued' = queued \cup {t}
            /\ UNCHANGED <<idx, file_pcts, meta>>
       ELSE /\ pc' = [pc EXCEPT ![t] = "mkdir"]
            /\ idx' = [idx EXCEPT ![t] = @ + 1]
            /\ file_pcts' = [file_pcts EXCEPT ![t] = <<>>]
            /\ meta' = [meta EXCEPT ![t] = NoMeta]
            /\ UNCHANGED <<events, queued>>
  /\ UNCHANGED <<jobs, stop_flag, duration, args, proc>>
  /\ UNCHANGED <<fs_vars, binaries, ui_vars>>

\* run, lines 159-161 and 173: next job, or leave the loop and emit all_done
LoopHead(t) ==
  /\ pc[t] = "loop"
  /\ IF idx[t] >= total(t) \/ should_break(t)
       THEN /\ pc' = [pc EXCEPT ![t] = "finished"]
            /\ Emit(t, <<AllDone>>)
            /\ queued' = queued \cup {t}
            /\ UNCHANGED <<idx, file_pcts, meta>>
       ELSE /\ pc' = [pc EXCEPT ![t] = "mkdir"]
            /\ idx' = [idx EXCEPT ![t] = @ + 1]
            /\ file_pcts' = [file_pcts EXCEPT ![t] = <<>>]
            /\ meta' = [meta EXCEPT ![t] = NoMeta]
            /\ UNCHANGED <<events, queued>>
  /\ UNCHANGED <<jobs, stop_flag, duration, args, proc>>
  /\ UNCHANGED <<fs_vars, binaries, ui_vars>>

\* lines 181-184 raising: rmtree failed (the directory d stays) or mkdir
\* failed after the old directory was removed
mkdir_failed(d) == {d, Absent}

\* MakeOutDir without the rmtree of lines 181-182: what the directory holds stays
MakeOutDir_no_rmtree(t) ==
  /\ pc[t] = "mkdir"
  /\ \/ /\ workdir' = [workdir EXCEPT ![out_dir_of(t)] = [exists |-> TRUE, files |-> @.files]]
        /\ pc' = [pc EXCEPT ![t] = "probe"]
        /\ UNCHANGED <<events, duration, args>>
     \/ /\ UNCHANGED workdir
        /\ EndJob(t, on_exception(idx[t], name_of(t), total(t)))
  /\ UNCHANGED <<jobs, stop_flag, idx, file_pcts, meta, proc, archive, binaries, queued, ui_vars>>

\* _process_one, lines 180-184: recreate the working directory, or an OSError
MakeOutDir(t) ==
  /\ pc[t] = "mkdir"
  /\ \/ /\ workdir' = [workdir EXCEPT ![out_dir_of(t)] = [exists |-> TRUE, files |-> {}]]
        /\ pc' = [pc EXCEPT ![t] = "probe"]
        /\ UNCHANGED <<events, duration, args>>
     \/ /\ \E d \in mkdir_failed(workdir[out_dir_of(t)]) :
             workdir' = [workdir EXCEPT ![out_dir_of(t)] = d]
        /\ EndJob(t, on_exception(idx[t], name_of(t), total(t)))
  /\ UNCHANGED <<jobs, stop_flag, idx, file_pcts, meta, proc, archive, binaries, queued, ui_vars>>

\* Probe when a failed prober is treated as an empty report instead of raising
Probe_error_as_empty(t) ==
  /\ pc[t] = "probe"
  /\ \E m \in ProbeMetas \cup {NoMeta} :
       /\ meta' = [meta EXCEPT ![t] = m]
       /\ IF must_skip(codecs_are_hls_friendly(m), job_of(t))
          THEN EndJob(t, on_skip(idx[t], name_of(t), total(t)))
          ELSE /\ duration' = [duration EXCEPT ![t] = probed_duration(m)]
               /\ args' = [args EXCEPT ![t] = codec_args(codecs_are_hls_friendly(m))]
               /\ pc' = [pc EXCEPT ![t] = "popen"]
               /\ UNCHANGED events
  /\ UNCHANGED <<jobs, stop_flag, idx, file_pcts, proc, fs_vars, binaries, queued, ui_vars>>

\* _process_one, lines 186-214: probe, then skip or build the encoder arguments
Probe(t) ==
  /\ pc[t] = "probe"
  /\ \/ /\ EndJob(t, on_exception(idx[t], name_of(t), total(t)))
        /\ UNCHANGED meta
     \/ \E m \in ProbeMetas :
          /\ meta' = [meta EXCEPT ![t] = m]
          /\ IF must_skip(codecs_are_hls_friendly(m), job_of(t))
             THEN EndJob(t, on_skip(idx[t], name_of(t), total(t)))
             ELSE /\ duration' = [duration EXCEPT ![t] = probed_duration(m)]
                  /\ args' = [args EXCEPT ![t] = codec_args(codecs_are_hls_friendly(m))]
                  /\ pc' = [pc EXCEPT ![t] = "popen"]
                  /\ UNCHANGED events
  /\ UNCHANGED <<jobs, stop_flag, idx, file_pcts, proc, fs_vars, binaries, queued, ui_vars>>

\* _process_one, line 217: the encoder starts and writes into the working directory
StartEncoder(t) ==
  /\ pc[t] = "popen"
  /\ proc' = [proc EXCEPT ![t] = TRUE]
  /\ meta' = [meta EXCEPT ![t] = NoMeta]
  /\ workdir' = [workdir EXCEPT ![out_dir_of(t)] =
                   IF @.exists THEN [@ EXCEPT !.files = @ \cup {<<t, idx[t]>>}] ELSE @]
  /\ pc' = [pc EXCEPT ![t] = "read"]
  /\ UNCHANGED <<jobs, stop_flag, idx, events, file_pcts, duration, args>>
  /\ UNCHANGED <<archive, binaries, queued, ui_vars>>

\* _process_one, lines 219-240: a status line time=<cur> of the encoder whose
\* percent is emitted.  A line that emits nothing (no time=, a malformed time,
\* a percent inside the debounce interval) changes no state: a stuttering step.
ReadLine(t) ==
  /\ pc[t] = "read"
  /\ Len(file_pcts[t]) < MaxLines
  /\ \E cur \in Elapsed :
       file_pcts' = [file_pcts EXCEPT ![t] = Append(@, file_pct(cur, duration[t]))]
  /\ UNCHANGED <<pc, jobs, stop_flag, idx, events, meta, duration, args, proc>>
  /\ UNCHANGED <<fs_vars, binaries, queued, ui_vars>>

\* EncoderExit when run catches SkipError only: the RuntimeError ends run
EncoderExit_uncaught(t) ==
  /\ pc[t] = "read"
  /\ proc' = [proc EXCEPT ![t] = FALSE]
  /\ \E rc \in {0, 1} :
       IF rc # 0
       THEN /\ pc' = [pc EXCEPT ![t] = "finished"]
            /\ duration' = [duration EXCEPT ![t] = 0]
            /\ args' = [args EXCEPT ![t] = "none"]
            /\ UNCHANGED events
       ELSE /\ pc' = [pc EXCEPT ![t] = "zip"]
            /\ UNCHANGED <<events, duration, args>>
  /\ UNCHANGED <<jobs, stop_flag, idx, file_pcts, meta, fs_vars, binaries, queued, ui_vars>>

\* _process_one, lines 221-244: end of output, the encoder exits with rc
EncoderExit(t) ==
  /\ pc[t] = "read"
  /\ proc' = [proc EXCEPT ![t] = FALSE]
  /\ \E rc \in {0, 1} :
       IF rc # 0
       THEN EndJob(t, on_exception(idx[t], name_of(t), total(t)))
       ELSE /\ pc' = [pc EXCEPT ![t] = "zip"]
            /\ UNCHANGED <<events, duration, args>>
  /\ UNCHANGED <<jobs, stop_flag, idx, file_pcts, meta, fs_vars, binaries, queued, ui_vars>>

\* a zip file left by a write that failed
Partial == [exists |-> TRUE, files |-> {}]

\* lines 248-256 raising: at unlink (archive a untouched), when the new file
\* is opened (a is gone), or while it is written (a is gone, a partial file is left)
zip_failed(a) == {a, Absent, Partial}

\* Zip with a handler that removes the working directory when packaging fails
Zip_remove_on_error(t) ==
  /\ pc[t] = "zip"
  /\ \/ /\ archive' = [archive EXCEPT ![out_dir_of(t)] =
                          [exists |-> TRUE, files |-> workdir[out_dir_of(t)].files]]
        /\ pc' = [pc EXCEPT ![t] = "rmtree"]
        /\ UNCHANGED <<events, duration, args, workdir>>
     \/ /\ \E a \in zip_failed(archive[out_dir_of(t)]) :
             archive' = [archive EXCEPT ![out_dir_of(t)] = a]
        /\ workdir' = [workdir EXCEPT ![out_dir_of(t)] = Absent]
        /\ EndJob(t, on_exception(idx[t], name_of(t), total(t)))
  /\ UNCHANGED <<jobs, stop_flag, idx, file_pcts, meta, proc, binaries, queued, ui_vars>>

\* _process_one, lines 247-256: replace the archive, or fail on the way
Zip(t) ==
  /\ pc[t] = "zip"
  /\ \/ /\ archive' = [archive EXCEPT ![out_dir_of(t)] =
                          [exists |-> TRUE, files |-> workdir[out_dir_of(t)].files]]
        /\ pc' = [pc EXCEPT ![t] = "rmtree"]
        /\ UNCHANGED <<events, duration, args>>
     \/ /\ \E a \in zip_failed(archive[out_dir_of(t)]) :
             archive' = [archive EXCEPT ![out_dir_of(t)] = a]
        /\ EndJob(t, on_exception(idx[t], name_of(t), total(t)))
  /\ UNCHANGED <<jobs, stop_flag, idx, file_pcts, meta, proc, workdir, binaries, queued, ui_vars>>

\* shutil.rmtree(out_dir, ignore_errors=True), line 259: the directory is
\* removed, or the removal fails and the error is ignored
rmtree_ignore_errors(d) == {Absent, d}

\* _process_one, lines 259-262: remove the working directory, log, percent 100
Cleanup(t) ==
  /\ pc[t] = "rmtree"
  /\ \E d \in rmtree_ignore_errors(workdir[out_dir_of(t)]) :
       workdir' = [workdir EXCEPT ![out_dir_of(t)] = d]
  /\ Emit(t, <<Log("DONE", idx[t], name_of(t))>>)
  /\ file_pcts' = [file_pcts EXCEPT ![t] = Append(@, 100)]
  /\ pc' = [pc EXCEPT ![t] = "returned"]
  /\ UNCHANGED <<jobs, stop_flag, idx, meta, duration, args, proc>>
  /\ UNCHANGED <<archive, binaries, queued, ui_vars>>

\* run, lines 164 and 171: _process_one returned
JobOk(t) ==
  /\ pc[t] = "returned"
  /\ EndJob(t, on_ok(idx[t], name_of(t), total(t)))
  /\ UNCHANGED <<jobs, stop_flag, idx, file_pcts, meta, proc, fs_vars, binaries, queued, ui_vars>>

\* stop, lines 175-176, called from another thread
stop(t) ==
  /\ pc[t] \notin {"none", "finished"}
  /\ ~stop_flag[t]
  /\ stop_flag' = [stop_flag EXCEPT ![t] = TRUE]
  /\ UNCHANGED <<pc, jobs, idx, events, file_pcts, meta, duration, args, proc>>
  /\ UNCHANGED <<fs_vars, binaries, queued, ui_vars>>

Worker(t) ==
  \/ RunStart(t)
  \/ LoopHead(t)
  \/ MakeOutDir(t)
  \/ Probe(t)
  \/ StartEncoder(t)
  \/ ReadLine(t)
  \/ EncoderExit(t)
  \/ Zip(t)
  \/ Cleanup(t)
  \/ JobOk(t)

\* ---------------------------------------------------- one ConverterThread
\* ConverterThread(jobs) for any job list, in an empty destination folder
Init ==
  /\ \E js \in JobLists : jobs = [t \in Threads |-> IF t = 1 THEN js ELSE <<>>]
  /\ pc = [t \in Threads |-> IF t = 1 THEN "ready" ELSE "none"]
  /\ stop_flag = [t \in Threads |-> FALSE]
  /\ idx = [t \in Threads |-> 0]
  /\ events = [t \in Threads |-> <<>>]
  /\ file_pcts = [t \in Threads |-> <<>>]
  /\ meta = [t \in Threads |-> NoMeta]
  /\ duration = [t \in Threads |-> 0]
  /\ args = [t \in Threads |-> "none"]
  /\ proc = [t \in Threads |-> FALSE]
  /\ workdir = [s \in Stems |-> Absent]
  /\ archive = [s \in Stems |-> Absent]
  /\ binaries \in BOOLEAN
  /\ queued = {}
  /\ drop = <<>>
  /\ out_dir = FALSE
  /\ btn_convert = FALSE
  /\ chk_skip = TRUE
  /\ chk_trans = FALSE

Next == \E t \in Threads : Worker(t) \/ stop(t)

Spec == Init /\ [][Next]_vars

\* ------------------------------------------------------------- MainWindow
Range(f) == {f[k] : k \in DOMAIN f}

\* MainWindow.update_convert_enabled, lines 468-470, for a list of n items
update_convert_enabled(n, dir) == n > 0 /\ dir

\* DropList.add_path, lines 322-330; rowsInserted runs update_convert_enabled
add_path(p) ==
  /\ Len(drop) < MaxItems
  /\ p \notin Range(drop)
  /\ drop' = Append(drop, p)
  /\ btn_convert' = update_convert_enabled(Len(drop'), out_dir)
  /\ UNCHANGED <<worker_vars, fs_vars, binaries, queued, out_dir, chk_skip, chk_trans>>

\* the list items from row k on, without the rows sel
RECURSIVE take_rows(_, _, _)
take_rows(items, sel, k) ==
  IF k > Len(items) THEN <<>>
  ELSE (IF k \in sel THEN <<>> ELSE <<items[k]>>) \o take_rows(items, sel, k + 1)

\* DropList.remove_selected, lines 338-340; rowsRemoved runs update_convert_enabled
remove_selected(sel) ==
  /\ sel # {}
  /\ drop' = take_rows(drop, sel, 1)
  /\ btn_convert' = update_convert_enabled(Len(drop'), out_dir)
  /\ UNCHANGED <<worker_vars, fs_vars, binaries, queued, out_dir, chk_skip, chk_trans>>

\* DropList.clear_all, lines 342-343: the model is reset, which signals neither
\* rowsInserted nor rowsRemoved, so update_convert_enabled does not run
clear_all ==
  /\ Len(drop) > 0
  /\ drop' = <<>>
  /\ UNCHANGED <<worker_vars, fs_vars, binaries, queued, out_dir, btn_convert, chk_skip, chk_trans>>

\* MainWindow.pick_out_folder, lines 460-466, when a folder is chosen
pick_out_folder ==
  /\ out_dir' = TRUE
  /\ btn_convert' = update_convert_enabled(Len(drop), out_dir')
  /\ UNCHANGED <<worker_vars, fs_vars, binaries, queued, drop, chk_skip, chk_trans>>

\* the jobs of start_convert, lines 481-490
jobs_of(items, skip, trans) ==
  [k \in DOMAIN items |->
     [src |-> items[k], skip_if_incompatible |-> skip, enable_transcode_if_needed |-> trans]]

\* MainWindow.start_convert, lines 472-502: a click on the enabled button
start_convert(t) ==
  /\ btn_convert
  /\ out_dir
  /\ Len(drop) > 0
  /\ pc[t] = "none"
  /\ \A u \in Threads : u < t => pc[u] # "none"
  /\ jobs' = [jobs EXCEPT ![t] = jobs_of(drop, chk_skip, chk_trans)]
  /\ pc' = [pc EXCEPT ![t] = "ready"]
  /\ btn_convert' = FALSE
  /\ UNCHANGED <<stop_flag, idx, events, file_pcts, meta, duration, args, proc>>
  /\ UNCHANGED <<fs_vars, binaries, queued, drop, out_dir, chk_skip, chk_trans>>

\* on_all_done without line 511: the convert button stays disabled
on_all_done_no_enable(t) ==
  /\ t \in queued
  /\ queued' = queued \ {t}
  /\ UNCHANGED btn_convert
  /\ UNCHANGED <<worker_vars, fs_vars, binaries, drop, out_dir, chk_skip, chk_trans>>

\* MainWindow._on_all_done, lines 510-513: the queued all_done of thread t arrives
on_all_done(t) ==
  /\ t \in queued
  /\ queued' = queued \ {t}
  /\ btn_convert' = TRUE
  /\ UNCHANGED <<worker_vars, fs_vars, binaries, drop, out_dir, chk_skip, chk_trans>>

\* the window after MainWindow.__init__ (lines 347-444) with no saved output
\* folder and an empty destination; the two check boxes keep their initial state
InitUI ==
  /\ jobs = [t \in Threads |-> <<>>]
  /\ pc = [t \in Threads |-> "none"]
  /\ stop_flag = [t \in Threads |-> FALSE]
  /\ idx = [t \in Threads |-> 0]
  /\ events = [t \in Threads |-> <<>>]
  /\ file_pcts = [t \in Threads |-> <<>>]
  /\ meta = [t \in Threads |-> NoMeta]
  /\ duration = [t \in Threads |-> 0]
  /\ args = [t \in Threads |-> "none"]
  /\ proc = [t \in Threads |-> FALSE]
  /\ workdir = [s \in Stems |-> Absent]
  /\ archive = [s \in Stems |-> Absent]
  /\ binaries \in BOOLEAN
  /\ queued = {}
  /\ drop = <<>>
  /\ out_dir = FALSE
  /\ btn_convert = FALSE
  /\ chk_skip = TRUE
  /\ chk_trans = FALSE

NextUI ==
  \/ \E p \in Paths : add_path(p)
  \/ \E sel \in SUBSET DOMAIN drop : remove_selected(sel)
  \/ clear_all
  \/ pick_out_folder
  \/ \E t \in Threads : start_convert(t)
  \/ \E t \in Threads : on_all_done(t)
  \/ \E t \in Threads : Worker(t)

SpecUI == InitUI /\ [][NextUI]_vars

\* ------------------------------------------ a destination that is in use
\* the job lists start_convert builds (lines 487-492): the two check boxes
\* give every job of a batch the same flags
BatchLists ==
  {js \in JobLists : \A i, j \in DOMAIN js :
      /\ js[i].skip_if_incompatible = js[j].skip_if_incompatible
      /\ js[i].enable_transcode_if_needed = js[j].enable_transcode_if_needed}

\* a file that an earlier run of the program left behind
OldFile == <<0, 0>>

\* <stem>_hls or <stem>.zip before run: missing, or left by an earlier run
DiskStates == {Absent, [exists |-> TRUE, files |-> {OldFile}]}

\* one ConverterThread of a batch, started on a destination root in any state
InitDisk ==
  /\ \E js \in BatchLists : jobs = [t \in Threads |-> IF t = 1 THEN js ELSE <<>>]
  /\ pc = [t \in Threads |-> IF t = 1 THEN "ready" ELSE "none"]
  /\ stop_flag = [t \in Threads |-> FALSE]
  /\ idx = [t \in Threads |-> 0]
  /\ events = [t \in Threads |-> <<>>]
  /\ file_pcts = [t \in Threads |-> <<>>]
  /\ meta = [t \in Threads |-> NoMeta]
  /\ duration = [t \in Threads |-> 0]
  /\ args = [t \in Threads |-> "none"]
  /\ proc = [t \in Threads |-> FALSE]
  /\ workdir \in [Stems -> DiskStates]
  /\ archive \in [Stems -> DiskStates]
  /\ binaries \in BOOLEAN
  /\ queued = {}
  /\ drop = <<>>
  /\ out_dir = FALSE
  /\ btn_convert = FALSE
  /\ chk_skip = TRUE
  /\ chk_trans = FALSE

SpecDisk == InitDisk /\ [][Next]_vars

\* ------------------------------------------------- a batch and its caller
\* the state start_convert leaves (lines 487-502): the thread is started and
\* the convert button is disabled
InitLive == Init /\ jobs[1] \in BatchLists

NextLive == \E t \in Threads : Worker(t) \/ stop(t) \/ on_all_done(t)

\* The thread is scheduled, the event loop delivers a queued all_done, and an
\* encoder that was started exits.  Nothing obliges anyone to call stop.
FairLive ==
  \A t \in Threads :
    /\ WF_vars(Worker(t))
    /\ WF_vars(EncoderExit(t))
    /\ WF_vars(on_all_done(t))

SpecLive == InitLive /\ [][NextLive]_vars /\ FairLive

\* ------------------------------------------- the computations of a job
StreamKinds ==
  { Stream("video", "h264"), Stream("video", "hevc"),
    Stream("audio", "aac"), Stream("audio", "opus"), Stream("subtitle", "mov_text") }

\* the "streams" array of a prober report: any kinds, in any order
StreamLists == UNION {[1..n -> StreamKinds] : n \in 0..MaxStreams}

\* format.duration: missing, not a number, negative, zero or positive
AnyDurations ==
  {Duration("absent", 0), Duration("unparsable", 0)}
    \cup {Duration("number", s) : s \in {-2, 0, 1, 3}}

AnyMetas == [streams : StreamLists, duration : AnyDurations]

\* the seconds parsed from a time= field of the encoder's output
AnyElapsed == {-1, 0, 1, 2, 7}

\* _process_one, lines 187-188 and 197-214, for the prober report meta[t]
analyse(t) ==
  /\ pc[t] = "report"
  /\ duration' = [duration EXCEPT ![t] = probed_duration(meta[t])]
  /\ args' = [args EXCEPT ![t] = codec_args(codecs_are_hls_friendly(meta[t]))]
  /\ pc' = [pc EXCEPT ![t] = "analysed"]
  /\ UNCHANGED <<jobs, stop_flag, idx, events, file_pcts, meta, proc>>
  /\ UNCHANGED <<fs_vars, binaries, queued, ui_vars>>

\* _process_one, lines 231-234 and 237: the percent of one time= value
percent(t) ==
  /\ pc[t] = "analysed"
  /\ \E cur \in AnyElapsed :
       file_pcts' = [file_pcts EXCEPT ![t] = <<file_pct(cur, duration[t])>>]
  /\ UNCHANGED <<pc, jobs, stop_flag, idx, events, meta, duration, args, proc>>
  /\ UNCHANGED <<fs_vars, binaries, queued, ui_vars>>

InitPure ==
  /\ \E m \in AnyMetas : meta = [t \in Threads |-> IF t = 1 THEN m ELSE NoMeta]
  /\ pc = [t \in Threads |-> IF t = 1 THEN "report" ELSE "none"]
  /\ jobs = [t \in Threads |-> <<>>]
  /\ stop_flag = [t \in Threads |-> FALSE]
  /\ idx = [t \in Threads |-> 0]
  /\ events = [t \in Threads |-> <<>>]
  /\ file_pcts = [t \in Threads |-> <<>>]
  /\ duration = [t \in Threads |-> 0]
  /\ args = [t \in Threads |-> "none"]
  /\ proc = [t \in Threads |-> FALSE]
  /\ workdir = [s \in Stems |-> Absent]
  /\ archive = [s \in Stems |-> Absent]
  /\ binaries = TRUE
  /\ queued = {}
  /\ drop = <<>>
  /\ out_dir = FALSE
  /\ btn_convert = FALSE
  /\ chk_skip = TRUE
  /\ chk_trans = FALSE

NextPure == \E t \in Threads : analyse(t) \/ percent(t)

SpecPure == InitPure /\ [][NextPure]_vars

\* ================================================================ claims
InJob == {"mkdir", "probe", "popen", "read", "zip", "rmtree", "returned"}

Sigs(t, S) == SelectSeq(events[t], LAMBDA e : e.sig \in S)

Last(q) == q[Len(q)]

\* the terminal outcome of the job idx[t], once run is past it
Outcome(t) == Last(Sigs(t, {"file_done"})).status

Ended(t) == pc[t] \in {"loop", "finished"} /\ idx[t] >= 1

\* C1: in every execution of run, all_done is emitted exactly once, when run
\* ends, and no signal (log, file_progress, file_done, progress) follows it.
C1_AllDoneOnceAndLast ==
  /\ [](\A t \in Threads :
          LET n == Len(Sigs(t, {"all_done"}))
          IN /\ n = (IF pc[t] = "finished" THEN 1 ELSE 0)
             /\ (n = 1 => Last(events[t]).sig = "all_done"))
  /\ [][\A t \in Threads :
          pc[t] = "finished" => events'[t] = events[t] /\ file_pcts'[t] = file_pcts[t]]_vars

\* C1 witness: run ended by stop() between two jobs, all_done emitted
C1_Witness ==
  /\ pc[1] = "finished" /\ stop_flag[1] /\ idx[1] = 1 /\ total(1) = 2
  /\ Last(events[1]).sig = "all_done"

\* C2: with the binaries found and stop() never called, every job of the list
\* gets exactly one file_done (OK, SKIP or FAIL), in submission order, whatever
\* the outcomes of the jobs before it.
C2_EveryJobOneFileDone ==
  \A t \in Threads :
    (pc[t] = "finished" /\ binaries /\ ~stop_flag[t]) =>
      LET fd == Sigs(t, {"file_done"})
      IN /\ Len(fd) = total(t)
         /\ \A k \in 1..Len(fd) :
              /\ fd[k].job = k
              /\ fd[k].name = stem(jobs[t][k].src)
              /\ fd[k].status \in {"OK", "SKIP", "FAIL"}

\* C2 witness: the first job failed, the second one was still processed
C2_Witness ==
  /\ pc[1] = "finished" /\ binaries /\ ~stop_flag[1] /\ total(1) = 2
  /\ Sigs(1, {"file_done"})[1].status = "FAIL"
  /\ Sigs(1, {"file_done"})[2].status = "OK"

\* the encoder was started for the job idx[t]
EncoderStarted(t) ==
  \/ proc[t]
  \/ args[t] # "none" /\ pc[t] # "popen"
  \/ <<t, idx[t]>> \in workdir[out_dir_of(t)].files

\* C3: a job whose probed codecs are not accepted, with skip_if_incompatible
\* true and enable_transcode_if_needed false, ends SKIP, never FAIL, and the
\* encoder is never started for it.
C3_IncompatibleIsSkipped ==
  \A t \in Threads :
    (/\ meta[t] # NoMeta
     /\ ~codecs_are_hls_friendly(meta[t])
     /\ job_of(t).skip_if_incompatible
     /\ ~job_of(t).enable_transcode_if_needed) =>
      /\ Ended(t)
      /\ Last(Sigs(t, {"file_done"})) = FileDone(idx[t], name_of(t), "SKIP")
      /\ ~EncoderStarted(t)

\* C3 witness: an hevc source skipped under the default flags
C3_Witness ==
  /\ Ended(1) /\ meta[1] # NoMeta /\ ~codecs_are_hls_friendly(meta[1])
  /\ job_of(1).skip_if_incompatible /\ ~job_of(1).enable_transcode_if_needed
  /\ Outcome(1) = "SKIP"

\* the prober reports some video stream, every video stream h264 and every
\* audio stream (if any) one of aac, mp3, ac3
ReportsAccepted(streams) ==
  /\ \E k \in DOMAIN streams : streams[k].codec_type = "video"
  /\ \A k \in DOMAIN streams :
       /\ streams[k].codec_type = "video" => streams[k].codec_name = "h264"
       /\ streams[k].codec_type = "audio" => streams[k].codec_name \in {"aac", "mp3", "ac3"}

C5_TranscodeWhenAllowed ==
  /\ [](\A t \in Threads :
          (meta[t] # NoMeta /\ ~codecs_are_hls_friendly(meta[t])) =>
            /\ (pc[t] = "popen" /\ args[t] = "transcode")
                 <=> (~job_of(t).skip_if_incompatible \/ job_of(t).enable_transcode_if_needed)
            /\ job_of(t).enable_transcode_if_needed => ~Ended(t))
  /\ [][\A t \in Threads :
          (~proc[t] /\ proc'[t] /\ ~codecs_are_hls_friendly(meta[t])) =>
            args'[t] = "transcode"]_vars

\* C5 witness: the encoder runs with the transcode arguments while
\* skip_if_incompatible and enable_transcode_if_needed are both true
C5_Witness ==
  /\ pc[1] = "read" /\ proc[1] /\ args[1] = "transcode"
  /\ job_of(1).skip_if_incompatible /\ job_of(1).enable_transcode_if_needed

Monotone(q) == \A k \in 1..(Len(q) - 1) : q[k] <= q[k + 1]

\* C6: within one job the file_progress percents are non-decreasing, and 100
\* is emitted only for a job whose terminal outcome is OK.
C6_PercentMonotoneAnd100OnlyOnOk ==
  \A t \in Threads :
    /\ Monotone(file_pcts[t])
    /\ (Ended(t) /\ \E k \in DOMAIN file_pcts[t] : file_pcts[t][k] = 100) => Outcome(t) = "OK"

\* every file_done of job k is directly followed by progress floor(k*100/N)
ProgressAfterEachJob(t) ==
  \A p \in DOMAIN events[t] :
    events[t][p].sig = "file_done" =>
      /\ p < Len(events[t])
      /\ events[t][p + 1] = Progress((events[t][p].job * 100) \div total(t))

\* C7 as stated: progress floor(k*100/N) after the k-th job, and for every
\* batch with N > 0 the last progress event before all_done is 100.
C7_LastProgressAlways100 ==
  \A t \in Threads :
    /\ ProgressAfterEachJob(t)
    /\ (pc[t] = "finished" /\ total(t) > 0) =>
         /\ Sigs(t, {"progress"}) # <<>>
         /\ Last(Sigs(t, {"progress"})).value = 100

\* C7 amended: progress floor(k*100/N) after the k-th job; when run ends, the
\* last progress event is that of the last job processed (none if no job was
\* processed), so it is 100 exactly when all N > 0 jobs were processed.
C7_LastProgressOfLastJob ==
  \A t \in Threads :
    /\ ProgressAfterEachJob(t)
    /\ pc[t] = "finished" =>
         LET pr == Sigs(t, {"progress"})
             done == Len(Sigs(t, {"file_done"}))
         IN /\ Len(pr) = done
            /\ done > 0 => Last(pr).value = (done * 100) \div total(t)
            /\ (done = total(t) /\ total(t) > 0) => Last(pr).value = 100
            /\ (binaries /\ ~stop_flag[t]) => done = total(t)

\* C7 witness: both jobs of a batch processed, progress 50 then 100
C7_Witness ==
  /\ pc[1] = "finished" /\ total(1) = 2
  /\ Sigs(1, {"progress"}) = <<Progress(50), Progress(100)>>

\* C8: file_done of job i is emitted before any step of job i+1 (working
\* directory, probe, encoder), and the progress event of job i after that
\* file_done and before job i+1 begins: while job idx is in progress the
\* file_done/progress signals are exactly those of jobs 1..idx-1, alternating.
C8_JobSignalsBeforeNextJob ==
  \A t \in Threads :
    LET fp == Sigs(t, {"file_done", "progress"})
        n == IF pc[t] \in InJob THEN idx[t] - 1 ELSE idx[t]
    IN /\ Len(fp) = 2 * n
       /\ \A j \in 1..n :
            /\ fp[2 * j - 1].sig = "file_done" /\ fp[2 * j - 1].job = j
            /\ fp[2 * j].sig = "progress"

\* C8 witness: the second job is being probed, the first one has ended
C8_Witness ==
  /\ pc[1] = "probe" /\ idx[1] = 2
  /\ Len(Sigs(1, {"file_done", "progress"})) = 2

\* C9: stop() only sets the flag; a job that has begun still can and does run
\* on to its file_done (the encoder ends only by exiting by itself), and once
\* the flag is set no further job is started: no directory is created, no
\* probe or encoder is run for a later job.
C9_StopOnlyBetweenJobs ==
  /\ [](\A t \in Threads : (stop_flag[t] /\ pc[t] \in InJob) => ENABLED Worker(t))
  /\ [][\A t \in Threads :
          /\ (stop_flag'[t] # stop_flag[t]) =>
               /\ pc'[t] = pc[t] /\ proc'[t] = proc[t] /\ events'[t] = events[t]
               /\ idx'[t] = idx[t] /\ workdir' = workdir
          /\ (stop_flag[t] /\ pc[t] \notin InJob) =>
               /\ pc'[t] \notin InJob /\ idx'[t] = idx[t] /\ ~proc'[t]
          /\ (pc[t] \in InJob /\ pc'[t] \notin InJob) =>
               /\ pc'[t] = "loop"
               /\ LET fd == SelectSeq(events'[t], LAMBDA e : e.sig = "file_done")
                  IN Len(fd) = Len(Sigs(t, {"file_done"})) + 1 /\ Last(fd).job = idx[t]
          /\ (proc[t] /\ ~proc'[t]) => pc[t] = "read" /\ pc'[t] \in {"zip", "loop"}]_vars

\* C9 witness: stop() was called during the first of two jobs, which went on
\* to its packaging
C9_Witness ==
  /\ stop_flag[1] /\ pc[1] = "returned" /\ idx[1] = 1 /\ total(1) = 2

\* a job uses its working directory from its creation to its removal
UsesDir(t) == pc[t] \in {"probe", "popen", "read", "zip", "rmtree"}

\* C10: at every moment at most one encoder process is running and at most
\* one job uses a given working directory.
C10_OneEncoderOneDirUser ==
  /\ Cardinality({t \in Threads : proc[t]}) <= 1
  /\ \A t, u \in Threads :
       (t # u /\ UsesDir(t) /\ UsesDir(u)) => out_dir_of(t) # out_dir_of(u)

\* C11: when ffmpeg or ffprobe cannot be located, run emits exactly one error
\* log line and then all_done and processes no job: no file_done, no per-job
\* percent, no overall progress, and nothing under the destination root is
\* created, removed or changed, however long the job list is.
C11_MissingBinariesNoJob ==
  /\ [](~binaries =>
         \A t \in Threads :
           /\ pc[t] \in {"none", "ready", "finished"}
           /\ idx[t] = 0
           /\ file_pcts[t] = <<>>
           /\ events[t] \in {<<>>, <<Log("ERROR", 0, ""), AllDone>>}
           /\ pc[t] = "finished" <=> events[t] # <<>>)
  /\ [][~binaries => UNCHANGED fs_vars]_vars

\* run has returned on a two-job list without the binaries; a working
\* directory of an earlier run is still there
C11_Witness ==
  /\ ~binaries
  /\ pc[1] = "finished"
  /\ Len(jobs[1]) = 2
  /\ events[1] = <<Log("ERROR", 0, ""), AllDone>>
  /\ workdir[stem(jobs[1][1].src)].exists

\* C12: whenever a job ends FAIL because the encoder exited with a non-zero
\* status or because packaging raised an error, the step that emits its
\* terminal event leaves the working directory <stem>_hls in existence.
C12_FailedJobKeepsWorkdir ==
  [][\A t \in Threads :
       (pc[t] \in {"read", "zip"} /\ pc'[t] = "loop") =>
         /\ Last(Sigs(t, {"file_done"}))' = FileDone(idx[t], name_of(t), "FAIL")
         /\ workdir'[out_dir_of(t)].exists]_vars

\* a job has failed in packaging: its directory holds the encoder's output and
\* a partial archive is left
C12_Witness ==
  /\ Ended(1)
  /\ Outcome(1) = "FAIL"
  /\ workdir[out_dir_of(1)] = [exists |-> TRUE, files |-> {<<1, idx[1]>>}]
  /\ archive[out_dir_of(1)] = Partial

\* C13: whenever a job has ended Completed (OK), the archive <stem>.zip exists
\* at the destination root and the job's working directory <stem>_hls no
\* longer exists.
C13_OkLeavesArchiveOnly ==
  \A t \in Threads :
    (Ended(t) /\ Outcome(t) = "OK") =>
      /\ archive[out_dir_of(t)].exists
      /\ ~workdir[out_dir_of(t)].exists

\* C14: after a job whose video codec is not accepted, with skip = true and
\* transcode = false, has ended SKIP, no working directory <stem>_hls of that
\* job exists under the destination root.
C14_SkippedJobLeavesNoWorkdir ==
  \A t \in Threads :
    ( /\ Ended(t)
      /\ Outcome(t) = "SKIP"
      /\ \E k \in DOMAIN meta[t].streams :
            /\ meta[t].streams[k].codec_type = "video"
            /\ meta[t].streams[k].codec_name # "h264"
      /\ job_of(t).skip_if_incompatible
      /\ ~job_of(t).enable_transcode_if_needed ) =>
        ~workdir[out_dir_of(t)].exists

\* job idx[t] of thread t has the stem of an earlier job of the same batch
SameStemAgain(t) ==
  \E k \in 1..(idx[t] - 1) : stem(jobs[t][k].src) = out_dir_of(t)

\* C15: when a job has the same stem (and destination root) as an earlier job
\* of its batch, its working directory is empty while it is probed, holds only
\* its own encoder's output afterwards - nothing of the earlier job or of an
\* earlier run - and once it has completed <stem>.zip holds only its output.
C15_SameStemSecondJobAlone ==
  \A t \in Threads :
    (pc[t] \in InJob \cup {"loop", "finished"} /\ idx[t] >= 2 /\ SameStemAgain(t)) =>
      /\ pc[t] \in {"probe", "popen"} =>
           workdir[out_dir_of(t)] = [exists |-> TRUE, files |-> {}]
      /\ pc[t] \in {"read", "zip"} =>
           workdir[out_dir_of(t)] = [exists |-> TRUE, files |-> {<<t, idx[t]>>}]
      /\ (pc[t] \in {"rmtree", "returned"} \/ (Ended(t) /\ Outcome(t) = "OK")) =>
           archive[out_dir_of(t)] = [exists |-> TRUE, files |-> {<<t, idx[t]>>}]

\* two jobs with one stem have both completed
C15_Witness ==
  /\ pc[1] = "finished"
  /\ idx[1] = 2
  /\ SameStemAgain(1)
  /\ Len(SelectSeq(events[1], LAMBDA e : e.sig = "file_done" /\ e.status = "OK")) = 2
  /\ archive[out_dir_of(1)].files = {<<1, 2>>}

\* C16: if the thread is scheduled and every prober and encoder process
\* eventually exits, every execution of run eventually emits all_done, for any
\* job list and any outcomes, and _on_all_done then re-enables the convert
\* button.
C16_AllDoneThenButtonEnabled ==
  \A t \in Threads :
    (pc[t] = "ready") ~>
      ( /\ pc[t] = "finished"
        /\ events[t] # <<>>
        /\ Last(events[t]) = AllDone
        /\ t \notin queued
        /\ btn_convert )

\* run has returned after two jobs that both failed, and the button is enabled
C16_Witness ==
  /\ pc[1] = "finished"
  /\ Last(events[1]) = AllDone
  /\ Len(SelectSeq(events[1], LAMBDA e : e.sig = "file_done" /\ e.status = "FAIL")) = 2
  /\ 1 \notin queued
  /\ btn_convert

\* C17: per job the steps happen only in the order Probing, Deciding,
\* Encoding, Packaging, Done.  The encoder is started only after the prober
\* delivered a report and the decision was stream copy or transcode (not
\* skip); packaging is started only by the step in which the encoder exits
\* with status 0; the archive is written only by packaging; and a prober
\* error ends the job FAIL with no encoder started and no archive written.
C17_StepOrder ==
  /\ [](\A t \in Threads : proc[t] => pc[t] = "read")
  /\ [][\A t \in Threads :
          /\ (~proc[t] /\ proc'[t]) =>
               /\ pc[t] = "popen"
               /\ meta[t] \in ProbeMetas
               /\ ~must_skip(codecs_are_hls_friendly(meta[t]), job_of(t))
               /\ args[t] = codec_args(codecs_are_hls_friendly(meta[t]))
          /\ (pc[t] # "popen" /\ pc'[t] = "popen") => (pc[t] = "probe" /\ meta'[t] \in ProbeMetas)
          /\ (pc[t] # "zip" /\ pc'[t] = "zip") =>
               (pc[t] = "read" /\ proc[t] /\ ~proc'[t] /\ events'[t] = events[t])
          /\ (pc[t] # "rmtree" /\ pc'[t] = "rmtree") => pc[t] = "zip"
          /\ (pc[t] # "returned" /\ pc'[t] = "returned") => pc[t] = "rmtree"
          /\ (archive' # archive) => (\E u \in Threads : pc[u] = "zip")
          /\ (pc[t] = "probe" /\ pc'[t] = "loop" /\ meta'[t] = NoMeta) =>
               /\ Last(Sigs(t, {"file_done"}))' = FileDone(idx[t], name_of(t), "FAIL")
               /\ ~proc'[t]
               /\ UNCHANGED fs_vars]_vars

\* the prober failed: the job's fresh directory is empty, no encoder ran, no
\* archive was written, the job ended FAIL
C17_Witness ==
  /\ Ended(1)
  /\ Outcome(1) = "FAIL"
  /\ meta[1] = NoMeta
  /\ workdir[out_dir_of(1)] = [exists |-> TRUE, files |-> {}]
  /\ ~archive[out_dir_of(1)].exists

\* C18: for any duration metadata (absent, unparsable, zero, negative or
\* positive) the duration _process_one uses is at least 1 second, so the
\* percent computation never divides by zero, and every percent computed for
\* file_progress is an integer in 0..100 for any elapsed time.
C18_DurationFlooredPercentInRange ==
  \A t \in Threads :
    pc[t] = "analysed" =>
      /\ duration[t] \in Nat
      /\ duration[t] >= 1
      /\ \A k \in DOMAIN file_pcts[t] : file_pcts[t][k] \in 0..100

\* a negative duration was floored to 1 s and an elapsed time of 7 s gave 100
C18_Witness ==
  /\ pc[1] = "analysed"
  /\ meta[1].duration = Duration("number", -2)
  /\ duration[1] = 1
  /\ file_pcts[1] = <<100>>

\* C19: the archive <stem>.zip is changed only by a job that ends Completed:
\* a step that changes it belongs to a job that goes on to report OK, and the
\* step in which a job ends SKIP or FAIL - a failure during packaging
\* included - leaves every archive as it was, so no existing archive is
\* deleted and no partial archive is left by a job that did not complete.
C19_ArchiveChangedOnlyByOk ==
  [][\A t \in Threads :
       /\ (pc[t] \in InJob /\ archive' # archive) => pc'[t] \in {"rmtree", "returned"}
       /\ (pc[t] \in InJob /\ pc'[t] = "loop"
             /\ Last(Sigs(t, {"file_done"}))'.status \in {"SKIP", "FAIL"}) =>
            archive' = archive]_vars

\* C20: for every stream list, with several video or audio streams in any
\* order, codecs_are_hls_friendly returns true (stream copy is chosen) exactly
\* when there is at least one video stream, every video stream's codec is
\* h264 and every audio stream's codec is one of aac, mp3, ac3.
C20_FriendlyIffAllAccepted ==
  \A t \in Threads :
    pc[t] = "analysed" =>
      /\ codecs_are_hls_friendly(meta[t]) <=> ReportsAccepted(meta[t].streams)
      /\ args[t] = "copy" <=> ReportsAccepted(meta[t].streams)

====
